---- MODULE Spec2Model ----
(***************************************************************************)
(* A model of TTS-gemini.ts: the command-line driver (main) that sends one *)
(* text-to-speech request, writes every inline audio part to               *)
(* temp_output.wav and transcodes it to output.opus, and the pure helpers  *)
(* parseMimeType, createWavHeader and convertToWav.                        *)
(*                                                                         *)
(* Strings are sequences of one-character strings, so that split, trim,    *)
(* startsWith and parseInt are computed character by character.  Byte      *)
(* buffers are sequences of integers in 0..255.                            *)
(***************************************************************************)
EXTENDS Integers, Sequences, FiniteSets, TLC

(***************************************************************************)
(* Bounds of the model.                                                    *)
(***************************************************************************)
\* longest generated character run after "L" and after "rate="
MaxRun == 2
\* longest payload handed directly to createWavHeader
MaxPayloadLen == 3
\* most parts in one response of the generation service
MaxParts == 2

(***************************************************************************)
(* JavaScript values.                                                      *)
(***************************************************************************)
\* the value undefined; as a string it reads "undefined", which no
\* sequence of single characters equals
Undefined == <<"undefined">>

\* a JavaScript number: NaN, or an integer
NaN == [nan |-> TRUE, n |-> 0]

Num(v) == [nan |-> FALSE, n |-> v]

Truthy(s) == s # Undefined /\ s # <<>>

IsWhitespace(c) == c \in {" ", "\t", "\n", "\r"}

IsDigit(c) == c \in {"0", "1", "2", "3", "4", "5", "6", "7", "8", "9"}

DigitValue(c) ==
  CASE c = "0" -> 0 [] c = "1" -> 1 [] c = "2" -> 2 [] c = "3" -> 3
    [] c = "4" -> 4 [] c = "5" -> 5 [] c = "6" -> 6 [] c = "7" -> 7
    [] c = "8" -> 8 [] c = "9" -> 9

\* String.prototype.trim
RECURSIVE TrimStart(_)
TrimStart(s) ==
  IF Len(s) > 0 /\ IsWhitespace(s[1]) THEN TrimStart(Tail(s)) ELSE s

RECURSIVE TrimEnd(_)
TrimEnd(s) ==
  IF Len(s) > 0 /\ IsWhitespace(s[Len(s)])
  THEN TrimEnd(SubSeq(s, 1, Len(s) - 1))
  ELSE s

Trim(s) == TrimEnd(TrimStart(s))

\* String.prototype.indexOf for one character, 1-based, 0 when absent
IndexOf(s, c) ==
  IF \E i \in 1..Len(s) : s[i] = c
  THEN CHOOSE i \in 1..Len(s) : s[i] = c /\ \A j \in 1..(i - 1) : s[j] # c
  ELSE 0

\* String.prototype.split on one character: "" splits to [""]
RECURSIVE Split(_, _)
Split(s, sep) ==
  LET i == IndexOf(s, sep)
  IN  IF i = 0
      THEN <<s>>
      ELSE <<SubSeq(s, 1, i - 1)>> \o Split(SubSeq(s, i + 1, Len(s)), sep)

\* Array.prototype.map(s => s.trim())
MapTrim(ss) == [i \in 1..Len(ss) |-> Trim(ss[i])]

\* the longest prefix of decimal digits
RECURSIVE DigitPrefix(_)
DigitPrefix(s) ==
  IF Len(s) > 0 /\ IsDigit(s[1]) THEN <<s[1]>> \o DigitPrefix(Tail(s)) ELSE <<>>

RECURSIVE DecimalValue(_)
DecimalValue(d) ==
  IF Len(d) = 0
  THEN 0
  ELSE 10 * DecimalValue(SubSeq(d, 1, Len(d) - 1)) + DigitValue(d[Len(d)])

\* parseInt(s, 10): leading whitespace, an optional sign, then the longest
\* run of digits; NaN when there is no digit
parseInt(s) ==
  LET t        == TrimStart(s)
      signed   == Len(t) > 0 /\ t[1] \in {"-", "+"}
      negative == Len(t) > 0 /\ t[1] = "-"
      d        == DigitPrefix(IF signed THEN Tail(t) ELSE t)
  IN  IF Len(d) = 0
      THEN NaN
      ELSE Num(IF negative THEN 0 - DecimalValue(d) ELSE DecimalValue(d))

(***************************************************************************)
(* parseMimeType                                                           *)
(***************************************************************************)
DefaultOptions ==
  [numChannels |-> Num(1), sampleRate |-> Num(16000), bitsPerSample |-> Num(16)]

\* format.slice(1) forgotten: the 'L' is handed to parseInt too
FormatBitsNoSlice(format) == parseInt(format)

\* the subtype's bit depth: format.slice(1) read by parseInt
FormatBits(format) == parseInt(Tail(format))

\* the 'L' branch: bitsPerSample is overridden when parseInt gives a number
ApplyFormat(options, format) ==
  IF Truthy(format) /\ format[1] = "L"
  THEN LET bits == FormatBits(format)
       IN  IF ~bits.nan THEN [options EXCEPT !.bitsPerSample = bits] ELSE options
  ELSE options

\* one turn of the loop over the parameters
ApplyParam(options, param) ==
  LET kv    == MapTrim(Split(param, "="))
      key   == kv[1]
      value == IF Len(kv) >= 2 THEN kv[2] ELSE Undefined
  IN  IF key = <<"r", "a", "t", "e">>
      THEN [options EXCEPT !.sampleRate = parseInt(value)]
      ELSE options

RECURSIVE ApplyParams(_, _)
ApplyParams(options, params) ==
  IF Len(params) = 0
  THEN options
  ELSE ApplyParams(ApplyParam(options, params[1]), Tail(params))

parseMimeType(mimeType) ==
  LET segs     == MapTrim(Split(mimeType, ";"))
      fileType == segs[1]
      params   == Tail(segs)
      ft       == Split(fileType, "/")
      format   == IF Len(ft) >= 2 THEN ft[2] ELSE Undefined
  IN  ApplyParams(ApplyFormat(DefaultOptions, format), params)

(***************************************************************************)
(* createWavHeader                                                         *)
(***************************************************************************)
\* the product of two JavaScript numbers
Times(a, b) == IF a.nan \/ b.nan THEN NaN ELSE Num(a.n * b.n)

\* the outcome of a call that returns bytes or throws
Returned(bytes) == [threw |-> FALSE, bytes |-> bytes]

Threw == [threw |-> TRUE, bytes |-> <<>>]

\* Buffer.write of a four-character ASCII tag
Ascii(tag) ==
  CASE tag = "RIFF" -> <<82, 73, 70, 70>>
    [] tag = "WAVE" -> <<87, 65, 86, 69>>
    [] tag = "fmt " -> <<102, 109, 116, 32>>
    [] tag = "data" -> <<100, 97, 116, 97>>

\* the bytes of a non-negative integer, least significant first
LittleEndian16(v) == <<v % 256, (v \div 256) % 256>>

LittleEndian32(v) ==
  <<v % 256, (v \div 256) % 256, (v \div 65536) % 256, (v \div 16777216) % 256>>

\* Buffer.writeUInt16LE of the number x.n / q (q > 0): NaN is stored as 0, a
\* value below 0 or above 65535 raises a RangeError, a fraction is truncated
writeUInt16LE(x, q) ==
  IF x.nan
  THEN Returned(LittleEndian16(0))
  ELSE IF x.n < 0 \/ x.n > 65535 * q
       THEN Threw
       ELSE Returned(LittleEndian16(x.n \div q))

\* the bytes most significant first, as writeUInt32BE would store them
writeUInt32BE(x, q) ==
  IF x.nan \/ x.n < 0
  THEN Returned(LittleEndian32(0))
  ELSE LET b == LittleEndian32(x.n \div q) IN Returned(<<b[4], b[3], b[2], b[1]>>)

\* Buffer.writeUInt32LE of the number x.n / q (q > 0); the upper limit
\* 4294967295 is compared through the 16-bit halves of the integer part
writeUInt32LE(x, q) ==
  IF x.nan
  THEN Returned(LittleEndian32(0))
  ELSE LET f == x.n \div q
           r == x.n % q
       IN  IF \/ x.n < 0
              \/ f \div 65536 >= 65536
              \/ (f \div 65536 = 65535 /\ f % 65536 = 65535 /\ r > 0)
           THEN Threw
           ELSE Returned(LittleEndian32(f))

\* the writes of a header in offset order; the first that throws ends it
RECURSIVE Concat(_)
Concat(fields) ==
  IF Len(fields) = 0
  THEN Returned(<<>>)
  ELSE LET rest == Concat(Tail(fields))
       IN  IF fields[1].threw \/ rest.threw
           THEN Threw
           ELSE Returned(fields[1].bytes \o rest.bytes)

\* sampleRate * numChannels * bitsPerSample, the byte rate times 8
byteRate8(options) ==
  Times(Times(options.sampleRate, options.numChannels), options.bitsPerSample)

\* numChannels * bitsPerSample, the block alignment times 8
blockAlign8(options) == Times(options.numChannels, options.bitsPerSample)

createWavHeader(dataLength, options) ==
  Concat(<<
    Returned(Ascii("RIFF")),
    writeUInt32LE(Num(36 + dataLength), 1),
    Returned(Ascii("WAVE")),
    Returned(Ascii("fmt ")),
    writeUInt32LE(Num(16), 1),
    writeUInt16LE(Num(1), 1),
    writeUInt16LE(options.numChannels, 1),
    writeUInt32LE(options.sampleRate, 1),
    writeUInt32LE(byteRate8(options), 8),
    writeUInt16LE(blockAlign8(options), 8),
    writeUInt16LE(options.bitsPerSample, 1),
    Returned(Ascii("data")),
    writeUInt32LE(Num(dataLength), 1)
  >>)

(***************************************************************************)
(* Buffer.from(data, 'base64') and convertToWav                            *)
(***************************************************************************)
Base64Alphabet ==
  << "A", "B", "C", "D", "E", "F", "G", "H", "I", "J", "K", "L", "M",
     "N", "O", "P", "Q", "R", "S", "T", "U", "V", "W", "X", "Y", "Z",
     "a", "b", "c", "d", "e", "f", "g", "h", "i", "j", "k", "l", "m",
     "n", "o", "p", "q", "r", "s", "t", "u", "v", "w", "x", "y", "z",
     "0", "1", "2", "3", "4", "5", "6", "7", "8", "9", "+", "/" >>

Base64Value(c) == IndexOf(Base64Alphabet, c) - 1

\* the 6-bit values up to the first padding character; characters outside
\* the alphabet are skipped
RECURSIVE Sextets(_)
Sextets(data) ==
  IF Len(data) = 0 \/ data[1] = "="
  THEN <<>>
  ELSE IF IndexOf(Base64Alphabet, data[1]) = 0
       THEN Sextets(Tail(data))
       ELSE <<Base64Value(data[1])>> \o Sextets(Tail(data))

\* four 6-bit values give three bytes, three give two, two give one
RECURSIVE Octets(_)
Octets(x) ==
  IF Len(x) < 2
  THEN <<>>
  ELSE LET b1 == x[1] * 4 + x[2] \div 16
       IN  IF Len(x) = 2
           THEN <<b1>>
           ELSE LET b2 == (x[2] % 16) * 16 + x[3] \div 4
                IN  IF Len(x) = 3
                    THEN <<b1, b2>>
                    ELSE <<b1, b2, (x[3] % 4) * 64 + x[4]>>
                           \o Octets(SubSeq(x, 5, Len(x)))

Base64Decode(data) == Octets(Sextets(data))

convertToWav(rawData, mimeType) ==
  LET options   == parseMimeType(mimeType)
      buffer    == Base64Decode(rawData)
      wavHeader == createWavHeader(Len(buffer), options)
  IN  IF wavHeader.threw THEN Threw ELSE Returned(wavHeader.bytes \o buffer)

(***************************************************************************)
(* mime.getExtension, buildPrompt and the arguments                        *)
(***************************************************************************)
\* the value null
Null == <<"null">>

UpperCase == << "A", "B", "C", "D", "E", "F", "G", "H", "I", "J", "K", "L", "M",
                "N", "O", "P", "Q", "R", "S", "T", "U", "V", "W", "X", "Y", "Z" >>

LowerCase == << "a", "b", "c", "d", "e", "f", "g", "h", "i", "j", "k", "l", "m",
                "n", "o", "p", "q", "r", "s", "t", "u", "v", "w", "x", "y", "z" >>

ToLowerCase(s) ==
  [i \in 1..Len(s) |->
     IF IndexOf(UpperCase, s[i]) = 0 THEN s[i] ELSE LowerCase[IndexOf(UpperCase, s[i])]]

\* the characters up to the first ';' or whitespace
RECURSIVE TypePrefix(_)
TypePrefix(s) ==
  IF Len(s) = 0 \/ s[1] = ";" \/ IsWhitespace(s[1])
  THEN <<>>
  ELSE <<s[1]>> \o TypePrefix(Tail(s))

AudioWav == <<"a", "u", "d", "i", "o", "/", "w", "a", "v">>

AudioMpeg == <<"a", "u", "d", "i", "o", "/", "m", "p", "e", "g">>

\* mime.getExtension: the parameters are dropped, the type is lower-cased and
\* looked up; null when the type has no extension
getExtension(type) ==
  LET t == ToLowerCase(TypePrefix(TrimStart(type)))
  IN  CASE t = AudioWav  -> <<"w", "a", "v">>
        [] t = AudioMpeg -> <<"m", "p", "g", "a">>
        [] OTHER         -> Null

\* x || ''
OrEmpty(x) == IF Truthy(x) THEN x ELSE <<>>

DEFAULT_TONE == <<"h", "a", "p", "p", "y">>

buildPrompt(content, tone) ==
  LET resolvedTone == IF Truthy(tone) /\ Truthy(Trim(tone)) THEN Trim(tone) ELSE DEFAULT_TONE
  IN  <<"R", "e", "a", "d", " ">> \o resolvedTone \o <<" ", "t", "o", "n", "e", ",", " ", "t", "a", "l", "k", " ", "i", "n", " ", "s", "p", "a", "n", "i", "s", "h", ":", "\n">> \o content

\* the test without the trim: only a missing or empty argument is refused
MissingContentNoTrim(contentArg) == ~Truthy(contentArg)

\* the test of getArgs that throws 'Missing content argument'
MissingContent(contentArg) == ~Truthy(contentArg) \/ ~Truthy(Trim(contentArg))

\* toneArg?.trim()
OptionalTrim(toneArg) == IF toneArg = Undefined THEN Undefined ELSE Trim(toneArg)

\* FFMPEG_PATH_ENV || ffmpegStaticPath || ''
ResolveFfmpegPath(ffmpegPathEnv, staticPath) ==
  IF Truthy(ffmpegPathEnv)
  THEN ffmpegPathEnv
  ELSE IF staticPath # Null /\ Truthy(staticPath) THEN staticPath ELSE <<>>

(***************************************************************************)
(* The state of one run of the program.                                    *)
(***************************************************************************)
VARIABLES
  argv,        \* process.argv: [content, tone], each a string or undefined
  env,         \* [GEMINI_API_KEY, FFMPEG_PATH, ffmpegStaticPath]
  resolvedFfmpegPath, \* the module-level constant computed at load
  pc,          \* where main is: start, checkKey, request, awaitGenerate,
               \* loop, awaitSave, saved, awaitConvert, done, failed
  error,       \* the error main was rejected with, "" when none
  args,        \* what getArgs returned
  sent,        \* the prompts sent to the generation service, in order
  response,    \* the parts of the response
  idx,         \* the index of the part the for loop is at
  inflight,    \* the asynchronous operations started and not yet settled
  disk,        \* temp_output.wav and output.opus
  stdout,      \* what console.log printed
  log,         \* history: the file and encoder events so far, in order
  call         \* a direct call of a pure helper: its name, argument, result

driverVars ==
  <<argv, env, resolvedFfmpegPath, pc, error, args, sent, response, idx,
    inflight, disk, stdout, log>>

vars ==
  <<argv, env, resolvedFfmpegPath, pc, error, args, sent, response, idx,
    inflight, disk, stdout, log, call>>

NoFile == [exists |-> FALSE, bytes |-> <<>>]

File(bytes) == [exists |-> TRUE, bytes |-> bytes]

NoCall == [fn |-> "none"]

(***************************************************************************)
(* The inputs.                                                             *)
(***************************************************************************)
ContentArgs == {Undefined, <<>>, <<" ">>, <<" ", "h", "i">>}

ToneArgs == {Undefined, <<" ">>, <<"s", "a", "d", " ">>}

ApiKeys == {Undefined, <<"k">>}

FfmpegPaths == {<<Undefined, Null>>, <<Undefined, <<"s">> >>, << <<"f">>, Null>>}

AudioL16Rate24000 == <<"a", "u", "d", "i", "o", "/", "L", "1", "6", ";", "r", "a", "t", "e", "=", "2", "4", "0", "0", "0">>

AudioLMinus8 == <<"a", "u", "d", "i", "o", "/", "L", "-", "8">>

SampleData == {Undefined, <<"Q", "U", "J", "D">>, <<"/", "w", "=", "=">>}

InlinePart(mimeType, data) ==
  [inlineData |-> TRUE, mimeType |-> mimeType, data |-> data, text |-> Undefined]

TextPart(text) ==
  [inlineData |-> FALSE, mimeType |-> Undefined, data |-> Undefined, text |-> text]

Parts ==
  {InlinePart(m, d) : m \in {AudioWav, AudioL16Rate24000}, d \in SampleData}
    \cup {InlinePart(Undefined, Undefined),
          InlinePart(AudioLMinus8, <<"Q", "U", "J", "D">>),
          TextPart(<<"o", "k">>),
          TextPart(Undefined)}

\* response.candidates?.[0]?.content?.parts ?? []
Responses == UNION {[1..n -> Parts] : n \in 0..MaxParts}

(***************************************************************************)
(* Module load and main.                                                   *)
(***************************************************************************)
DriverInit ==
  /\ argv \in [content : ContentArgs, tone : ToneArgs]
  /\ \E k \in ApiKeys, f \in FfmpegPaths :
       /\ env = [GEMINI_API_KEY |-> k, FFMPEG_PATH |-> f[1], ffmpegStaticPath |-> f[2]]
       /\ resolvedFfmpegPath = ResolveFfmpegPath(f[1], f[2])
  /\ pc = "start"
  /\ error = ""
  /\ args = [content |-> Undefined, tone |-> Undefined]
  /\ sent = <<>>
  /\ response = <<>>
  /\ idx = 0
  /\ inflight = {}
  /\ disk = [temp |-> NoFile, opus |-> NoFile]
  /\ stdout = <<>>
  /\ log = <<>>

Event(ev, part) == [ev |-> ev, part |-> part]

\* main is rejected: the process ends with the unhandled error
Reject(e) == pc' = "failed" /\ error' = e

\* getArgs
GetArgs ==
  /\ pc = "start"
  /\ IF MissingContent(argv.content)
     THEN Reject("MissingContent") /\ UNCHANGED args
     ELSE /\ args' = [content |-> Trim(argv.content), tone |-> OptionalTrim(argv.tone)]
          /\ pc' = "checkKey"
          /\ UNCHANGED error
  /\ UNCHANGED <<call, argv, env, resolvedFfmpegPath, sent, response, idx, inflight, disk,
                 stdout, log>>

\* if (!apiKey) throw
CheckApiKey ==
  /\ pc = "checkKey"
  /\ IF ~Truthy(env.GEMINI_API_KEY)
     THEN Reject("MissingKey")
     ELSE pc' = "request" /\ UNCHANGED error
  /\ UNCHANGED <<call, argv, env, resolvedFfmpegPath, args, sent, response, idx, inflight,
                 disk, stdout, log>>

\* ai.models.generateContent is called and awaited
GenerateContent ==
  /\ pc = "request"
  /\ sent' = Append(sent, buildPrompt(args.content, args.tone))
  /\ inflight' = inflight \cup {[op |-> "generateContent", part |-> 0, bytes |-> <<>>]}
  /\ pc' = "awaitGenerate"
  /\ UNCHANGED <<call, argv, env, resolvedFfmpegPath, error, args, response, idx, disk,
                 stdout, log>>

\* the request resolves with a response
GenerateResolves ==
  /\ pc = "awaitGenerate"
  /\ \E o \in inflight :
       /\ o.op = "generateContent"
       /\ inflight' = inflight \ {o}
  /\ \E r \in Responses : response' = r
  /\ idx' = 1
  /\ pc' = "loop"
  /\ UNCHANGED <<call, argv, env, resolvedFfmpegPath, error, args, sent, disk, stdout, log>>

\* the request rejects: the error leaves main unchanged
GenerateRejects ==
  /\ pc = "awaitGenerate"
  /\ \E o \in inflight :
       /\ o.op = "generateContent"
       /\ inflight' = inflight \ {o}
  /\ Reject("Upstream")
  /\ UNCHANGED <<call, argv, env, resolvedFfmpegPath, args, sent, response, idx, disk,
                 stdout, log>>

\* the payload written as it is, whatever its media type
PartBufferNoHeader(part) == Returned(Base64Decode(OrEmpty(part.data)))

\* the buffer main hands to saveBinaryFile for an inline part
PartBuffer(part) ==
  IF getExtension(OrEmpty(part.mimeType)) # Null
  THEN Returned(Base64Decode(OrEmpty(part.data)))
  ELSE convertToWav(OrEmpty(part.data), OrEmpty(part.mimeType))

\* saveBinaryFile(...) without await: main goes on to convertToOpus at once
NoAwaitSave == "saved"

\* await saveBinaryFile(...): main waits for the write to settle
AwaitSave == "awaitSave"

\* await convertToOpus(...): main waits for the encoder to settle
AwaitConvert == "awaitConvert"

\* the for loop is over
LoopEnd ==
  /\ pc = "loop"
  /\ idx > Len(response)
  /\ pc' = "done"
  /\ UNCHANGED <<call, argv, env, resolvedFfmpegPath, error, args, sent, response, idx,
                 inflight, disk, stdout, log>>

\* a part with inlineData: the buffer is built and saveBinaryFile is called
PartInline ==
  /\ pc = "loop"
  /\ idx <= Len(response)
  /\ response[idx].inlineData
  /\ LET buffer == PartBuffer(response[idx])
     IN  IF buffer.threw
         THEN Reject("RangeError") /\ UNCHANGED <<inflight, log>>
         ELSE /\ inflight' = inflight \cup
                   {[op |-> "writeFile", part |-> idx, bytes |-> buffer.bytes]}
              /\ log' = Append(log, Event("writeStart", idx))
              /\ pc' = AwaitSave
              /\ UNCHANGED error
  /\ UNCHANGED <<call, argv, env, resolvedFfmpegPath, args, sent, response, idx, disk, stdout>>

\* a part with text only: console.log
PartText ==
  /\ pc = "loop"
  /\ idx <= Len(response)
  /\ ~response[idx].inlineData
  /\ Truthy(response[idx].text)
  /\ stdout' = Append(stdout, response[idx].text)
  /\ idx' = idx + 1
  /\ UNCHANGED <<call, argv, env, resolvedFfmpegPath, pc, error, args, sent, response,
                 inflight, disk, log>>

\* a part with neither
PartOther ==
  /\ pc = "loop"
  /\ idx <= Len(response)
  /\ ~response[idx].inlineData
  /\ ~Truthy(response[idx].text)
  /\ idx' = idx + 1
  /\ UNCHANGED <<call, argv, env, resolvedFfmpegPath, pc, error, args, sent, response,
                 inflight, disk, stdout, log>>

\* writeFile's callback without an error: saveBinaryFile resolves
WriteFileOk ==
  /\ \E o \in inflight :
       /\ o.op = "writeFile"
       /\ inflight' = inflight \ {o}
       /\ disk' = [disk EXCEPT !.temp = File(o.bytes)]
       /\ log' = Append(log, Event("writeOk", o.part))
  /\ pc' = IF pc = "awaitSave" THEN "saved" ELSE pc
  /\ UNCHANGED <<call, argv, env, resolvedFfmpegPath, error, args, sent, response, idx, stdout>>

\* writeFile's callback with an error: saveBinaryFile rejects; the file is
\* as it was, or was opened and truncated before the write failed
WriteFileErr ==
  /\ \E o \in inflight :
       /\ o.op = "writeFile"
       /\ inflight' = inflight \ {o}
       /\ log' = Append(log, Event("writeErr", o.part))
  /\ \E truncated \in BOOLEAN :
       disk' = IF truncated THEN [disk EXCEPT !.temp = File(<<>>)] ELSE disk
  /\ IF pc = "awaitSave" THEN Reject("Write") ELSE UNCHANGED <<pc, error>>
  /\ UNCHANGED <<call, argv, env, resolvedFfmpegPath, args, sent, response, idx, stdout>>

\* convertToOpus without an encoder path: rejected before ffmpeg is run
ConvertToOpusNoFfmpeg ==
  /\ pc = "saved"
  /\ ~Truthy(resolvedFfmpegPath)
  /\ Reject("NoFfmpeg")
  /\ UNCHANGED <<call, argv, env, resolvedFfmpegPath, args, sent, response, idx, inflight,
                 disk, stdout, log>>

\* convertToOpus: ffmpeg(...).run()
ConvertToOpusRun ==
  /\ pc = "saved"
  /\ Truthy(resolvedFfmpegPath)
  /\ inflight' = inflight \cup {[op |-> "ffmpeg", part |-> idx, bytes |-> <<>>]}
  /\ log' = Append(log, Event("ffmpegStart", idx))
  /\ pc' = AwaitConvert
  /\ UNCHANGED <<call, argv, env, resolvedFfmpegPath, error, args, sent, response, idx, disk,
                 stdout>>

\* no unlinkSync at all
UnlinkNever(d, ok) == d

\* unlinkSync(inputFile) inside try/catch: the file is removed, or the
\* error is ignored and the file stays
Unlink(d, ok) == IF ok THEN [d EXCEPT !.temp = NoFile] ELSE d

\* the encoder's 'end' event: output.opus is there (recorded by the bytes of
\* the file it was encoded from), the temporary file is unlinked,
\* convertToOpus resolves and the loop goes to the next part
FfmpegEnd ==
  /\ \E o \in inflight :
       /\ o.op = "ffmpeg"
       /\ inflight' = inflight \ {o}
       /\ \E ok \in BOOLEAN :
            /\ disk' = Unlink([disk EXCEPT !.opus = File(disk.temp.bytes)],
                              ok /\ disk.temp.exists)
            /\ log' = log \o <<Event("ffmpegEnd", o.part),
                                Event(IF ok /\ disk.temp.exists THEN "unlinkOk" ELSE "unlinkErr",
                                      o.part)>>
  /\ stdout' = Append(stdout, <<"s", "a", "v", "e", "d">>)
  /\ IF pc = "awaitConvert"
     THEN pc' = "loop" /\ idx' = idx + 1
     ELSE UNCHANGED <<pc, idx>>
  /\ UNCHANGED <<call, argv, env, resolvedFfmpegPath, error, args, sent, response>>

\* the 'error' handler resolving instead of rejecting: the loop goes on
FfmpegErrorResolves ==
  /\ \E o \in inflight :
       /\ o.op = "ffmpeg"
       /\ inflight' = inflight \ {o}
       /\ log' = Append(log, Event("ffmpegError", o.part))
  /\ IF pc = "awaitConvert"
     THEN pc' = "loop" /\ idx' = idx + 1
     ELSE UNCHANGED <<pc, idx>>
  /\ UNCHANGED <<call, argv, env, resolvedFfmpegPath, error, args, sent, response,
                 disk, stdout>>

\* the encoder's 'error' event: convertToOpus rejects and nothing is
\* unlinked; output.opus is as it was or partly written
FfmpegError ==
  /\ \E o \in inflight :
       /\ o.op = "ffmpeg"
       /\ inflight' = inflight \ {o}
       /\ log' = Append(log, Event("ffmpegError", o.part))
  /\ \E partial \in BOOLEAN :
       disk' = IF partial THEN [disk EXCEPT !.opus = File(<<>>)] ELSE disk
  /\ IF pc = "awaitConvert" THEN Reject("Transcode") ELSE UNCHANGED <<pc, error>>
  /\ UNCHANGED <<call, argv, env, resolvedFfmpegPath, args, sent, response, idx, stdout>>

Init == DriverInit /\ call = NoCall

Next ==
  \/ GetArgs
  \/ CheckApiKey
  \/ GenerateContent
  \/ GenerateResolves
  \/ GenerateRejects
  \/ LoopEnd
  \/ PartInline
  \/ PartText
  \/ PartOther
  \/ WriteFileOk
  \/ WriteFileErr
  \/ ConvertToOpusNoFfmpeg
  \/ ConvertToOpusRun
  \/ FfmpegEnd
  \/ FfmpegError

Spec == Init /\ [][Next]_vars

(***************************************************************************)
(* Direct calls of parseMimeType and createWavHeader on inputs drawn from  *)
(* bounded sets.                                                           *)
(***************************************************************************)
RunChars == {"0", "1", "6", "8", "-", "a"}

\* every string over RunChars of at most MaxRun characters
Runs == UNION {[1..n -> RunChars] : n \in 0..MaxRun}

DigitRuns == {r \in Runs : Len(r) > 0 /\ \A i \in 1..Len(r) : IsDigit(r[i])}

AudioL == <<"a", "u", "d", "i", "o", "/", "L">>

RateParam == <<";", "r", "a", "t", "e", "=">>

\* the descriptor string audio/L<N>;rate=<R>
LinearPcm(N, R) == AudioL \o N \o RateParam \o R

FileTypes ==
  {<<>>, <<"a", "u", "d", "i", "o">>, <<"a", "u", "d", "i", "o", "/">>, AudioWav, <<"a", "u", "d", "i", "o", "/", " ", "L", "1", "6">>, <<"a", "u", "d", "i", "o", "/", "l", "1", "6">>}
    \cup {AudioL \o r : r \in Runs}

ParamTails ==
  {<<>>, <<";", "r", "a", "t", "e">>, <<";", "c", "o", "d", "e", "c", "=", "p", "c", "m">>, <<";", " ", "r", "a", "t", "e", " ", "=", " ", "8", " ">>, <<";", "r", "a", "t", "e", "=", "8", ";", "r", "a", "t", "e", "=", "1", "6">>, <<";", "r", "a", "t", "e", "=", "2", "4", "0", "0", "0">>, <<";", "R", "a", "t", "e", "=", "8">>}
    \cup {RateParam \o r : r \in Runs}

MimeInputs == {t \o p : t \in FileTypes, p \in ParamTails}

PayloadLengths == (0..MaxPayloadLen) \cup {1000, 70000, 16777217}

\* descriptors in range, and some whose values do not fit the header's fields
Descriptors ==
  [numChannels : {Num(1), Num(2)},
   sampleRate : {Num(8000), Num(16000), Num(24000), Num(44100), NaN, Num(0 - 5)},
   bitsPerSample : {Num(8), Num(12), Num(16), Num(24), Num(32)}]
    \cup {[numChannels |-> Num(65536), sampleRate |-> Num(1), bitsPerSample |-> Num(8)],
          [numChannels |-> Num(1), sampleRate |-> Num(8000), bitsPerSample |-> Num(65544)],
          [numChannels |-> Num(16384), sampleRate |-> Num(1), bitsPerSample |-> Num(32)]}

CallParseMimeType ==
  /\ call.fn = "none"
  /\ \E m \in MimeInputs :
       call' = [fn |-> "parseMimeType", mimeType |-> m, ret |-> parseMimeType(m)]
  /\ UNCHANGED driverVars

CallCreateWavHeader ==
  /\ call.fn = "none"
  /\ \E n \in PayloadLengths, d \in Descriptors :
       call' = [fn |-> "createWavHeader", dataLength |-> n, options |-> d,
                ret |-> createWavHeader(n, d)]
  /\ UNCHANGED driverVars

\* the program is not run
DriverIdle ==
  /\ argv = [content |-> Undefined, tone |-> Undefined]
  /\ env = [GEMINI_API_KEY |-> Undefined, FFMPEG_PATH |-> Undefined,
            ffmpegStaticPath |-> Null]
  /\ resolvedFfmpegPath = <<>>
  /\ pc = "idle"
  /\ error = ""
  /\ args = [content |-> Undefined, tone |-> Undefined]
  /\ sent = <<>>
  /\ response = <<>>
  /\ idx = 0
  /\ inflight = {}
  /\ disk = [temp |-> NoFile, opus |-> NoFile]
  /\ stdout = <<>>
  /\ log = <<>>

PureInit == DriverIdle /\ call = NoCall

PureNext ==
  \/ CallParseMimeType
  \/ CallCreateWavHeader

SpecPure == PureInit /\ [][PureNext]_vars

(***************************************************************************)
(* Properties of the direct calls (SpecPure).                              *)
(***************************************************************************)
ReadUInt16LE(h, offset) == h[offset + 1] + 256 * h[offset + 2]

ReadUInt32LE(h, offset) ==
  h[offset + 1] + 256 * h[offset + 2] + 65536 * h[offset + 3] + 16777216 * h[offset + 4]

AllDigits(r) == Len(r) > 0 /\ \A i \in 1..Len(r) : IsDigit(r[i])

Descriptor(c, r, b) == [numChannels |-> Num(c), sampleRate |-> Num(r), bitsPerSample |-> Num(b)]

\* the descriptor has a standard bit depth and every header field fits its width
FitsHeader(d) ==
  /\ ~d.numChannels.nan /\ ~d.sampleRate.nan /\ ~d.bitsPerSample.nan
  /\ d.bitsPerSample.n \in {8, 16, 24, 32}
  /\ d.numChannels.n \in 1..65535
  /\ d.sampleRate.n >= 0
  /\ d.numChannels.n * d.bitsPerSample.n <= 65535 * 8

\* C6: for a payload length L and a descriptor with a standard bit depth whose
\* values fit the fields, createWavHeader returns 44 bytes whose little-endian
\* fields are ChunkSize = 36 + L, Subchunk2Size = L, NumChannels, SampleRate,
\* ByteRate = sampleRate * numChannels * bitsPerSample / 8, BlockAlign =
\* numChannels * bitsPerSample / 8 and BitsPerSample; L = 0 with {1, 16000, 16}
\* gives ChunkSize 36, Subchunk2Size 0, ByteRate 32000, BlockAlign 2.
C6_HeaderFields ==
  (call.fn = "createWavHeader" /\ FitsHeader(call.options)) =>
    LET h == call.ret.bytes
        d == call.options
        L == call.dataLength
    IN  /\ ~call.ret.threw
        /\ Len(h) = 44
        /\ \A i \in 1..44 : h[i] \in 0..255
        /\ ReadUInt32LE(h, 4) = 36 + L
        /\ ReadUInt32LE(h, 40) = L
        /\ ReadUInt16LE(h, 22) = d.numChannels.n
        /\ ReadUInt32LE(h, 24) = d.sampleRate.n
        /\ ReadUInt32LE(h, 28) * 8 = d.sampleRate.n * d.numChannels.n * d.bitsPerSample.n
        /\ ReadUInt16LE(h, 32) * 8 = d.numChannels.n * d.bitsPerSample.n
        /\ ReadUInt16LE(h, 34) = d.bitsPerSample.n
        /\ (L = 0 /\ d = Descriptor(1, 16000, 16)) =>
             /\ ReadUInt32LE(h, 4) = 36
             /\ ReadUInt32LE(h, 40) = 0
             /\ ReadUInt32LE(h, 28) = 32000
             /\ ReadUInt16LE(h, 32) = 2

\* a header was built for a payload of more than 65535 bytes in 24-bit stereo
C6_Witness ==
  /\ call.fn = "createWavHeader"
  /\ call.dataLength = 70000
  /\ call.options = Descriptor(2, 44100, 24)
  /\ ~call.ret.threw
  /\ ReadUInt32LE(call.ret.bytes, 28) = 264600

\* the <N> and <R> of a descriptor string read as audio/L<N>;rate=<R>
LinearN(m) == SubSeq(m, Len(AudioL) + 1, IndexOf(m, ";") - 1)

LinearR(m) == SubSeq(m, IndexOf(m, ";") + Len(RateParam), Len(m))

IsLinearPcm(m) ==
  /\ IndexOf(m, ";") > Len(AudioL)
  /\ AllDigits(LinearN(m))
  /\ AllDigits(LinearR(m))
  /\ m = LinearPcm(LinearN(m), LinearR(m))

\* C7: for every descriptor string audio/L<N>;rate=<R> with N and R non-empty
\* digit strings, parseMimeType returns bitsPerSample = N, sampleRate = R and
\* numChannels = 1; audio/L16;rate=24000 gives {1, 24000, 16}.
C7_LinearPcmParsed ==
  (call.fn = "parseMimeType" /\ IsLinearPcm(call.mimeType)) =>
    /\ call.ret = Descriptor(1, DecimalValue(LinearR(call.mimeType)),
                             DecimalValue(LinearN(call.mimeType)))
    /\ call.mimeType = AudioL16Rate24000 => call.ret = Descriptor(1, 24000, 16)

\* audio/L8;rate=24000 was parsed to 8 bits at 24000 Hz
C7_Witness ==
  /\ call.fn = "parseMimeType"
  /\ call.mimeType = AudioL \o <<"8">> \o RateParam \o <<"2", "4", "0", "0", "0">>
  /\ IsLinearPcm(call.mimeType)
  /\ call.ret = Descriptor(1, 24000, 8)

Positive(x) == ~x.nan /\ x.n > 0

\* C8: every descriptor parseMimeType returns, for any string, has
\* numChannels, sampleRate and bitsPerSample strictly positive integers.
C8_AllPositive ==
  call.fn = "parseMimeType" =>
    /\ Positive(call.ret.numChannels)
    /\ Positive(call.ret.sampleRate)
    /\ Positive(call.ret.bitsPerSample)

\* the portion after '/' of the segment before the first ';'
SubtypeOf(m) ==
  LET seg == IF IndexOf(m, ";") = 0 THEN m ELSE SubSeq(m, 1, IndexOf(m, ";") - 1)
  IN  IF IndexOf(seg, "/") = 0 THEN <<>> ELSE SubSeq(seg, IndexOf(seg, "/") + 1, Len(seg))

\* the subtype is L followed by decimal digits only
MatchesLDigits(sub) == Len(sub) >= 2 /\ sub[1] = "L" /\ AllDigits(Tail(sub))

\* C9: bitsPerSample is overridden only when the subtype matches L<digits>:
\* for L followed by anything that is not purely digits, and for a subtype not
\* starting with L, bitsPerSample stays the default 16.
C9_OnlyLDigitsOverride ==
  (call.fn = "parseMimeType" /\ ~MatchesLDigits(SubtypeOf(call.mimeType))) =>
    call.ret.bitsPerSample = Num(16)

(***************************************************************************)
(* Properties of a run of the program (Spec).                              *)
(***************************************************************************)
\* the argument is missing, or blank once trimmed
IsBlank(c) == c = Undefined \/ \A i \in 1..Len(c) : IsWhitespace(c[i])

NothingWritten == ~disk.temp.exists /\ ~disk.opus.exists /\ log = <<>>

\* C1: with the content argument missing or blank, main fails before the
\* request to the generation service is issued and neither temp_output.wav nor
\* output.opus is written: no request step and no file-write step ever occurs.
C1_BlankContentFailsFirst ==
  IsBlank(argv.content) =>
    /\ pc \in {"start", "failed"}
    /\ pc = "failed" => error = "MissingContent"
    /\ sent = <<>>
    /\ inflight = {}
    /\ NothingWritten

\* a run given only whitespace as content has failed
C1_Witness ==
  /\ argv.content = <<" ">>
  /\ Truthy(env.GEMINI_API_KEY)
  /\ pc = "failed"
  /\ error = "MissingContent"

\* C2: a run that ends because the credential is missing or because no encoder
\* path is resolvable has written no output file: neither temp_output.wav nor
\* output.opus exists as a result of the run.
C2_ConfigErrorNoOutput ==
  (pc = "failed" /\ error \in {"MissingKey", "NoFfmpeg"}) => NothingWritten

\* the positions of the log holding one of the events
Positions(evs) == {k \in 1..Len(log) : log[k].ev \in evs}

\* C3: when the encoder reports failure for a part, the temporary WAV file is
\* left on disk, the error is propagated out of main and the run aborts: no
\* later part is written or transcoded and the transcode is not retried.
C3_TranscodeErrorAborts ==
  \A k \in Positions({"ffmpegError"}) :
    /\ k = Len(log)
    /\ pc = "failed"
    /\ error = "Transcode"
    /\ inflight = {}
    /\ idx = log[k].part
    /\ k >= 3
    /\ log[k - 1] = Event("ffmpegStart", log[k].part)
    /\ log[k - 2] = Event("writeOk", log[k].part)
    /\ disk.temp = File(PartBuffer(response[log[k].part]).bytes)
    /\ Cardinality({j \in Positions({"ffmpegStart"}) : log[j].part = log[k].part}) = 1

\* the encoder failed on the first of two inline parts
C3_Witness ==
  /\ Positions({"ffmpegError"}) # {}
  /\ pc = "failed"
  /\ idx = 1
  /\ Len(response) = 2
  /\ response[2].inlineData
  /\ disk.temp.exists

HasInlinePart == \E i \in 1..Len(response) : response[i].inlineData

UnlinkEvents == {"unlinkOk", "unlinkErr"}

LastUnlink == log[CHOOSE k \in Positions(UnlinkEvents) :
                    \A j \in Positions(UnlinkEvents) : j <= k].ev

\* every unlink comes right after the encoder's 'end' event of the same part
UnlinkAfterEnd ==
  \A k \in Positions(UnlinkEvents) :
    k > 1 /\ log[k - 1] = Event("ffmpegEnd", log[k].part)

\* C4, as claimed: the temporary file is deleted only after, and after, the
\* successful end of its transcoding; when a run with an inline part finishes
\* without error, temp_output.wav has been removed and output.opus is kept.
C4_TempRemovedAtEnd ==
  /\ UnlinkAfterEnd
  /\ (pc = "done" /\ HasInlinePart) => (~disk.temp.exists /\ disk.opus.exists)

\* C4, amended: the unlink is attempted only right after the successful end of
\* the part's transcoding; when a run with an inline part finishes without
\* error, output.opus is kept, and temp_output.wav has been removed unless the
\* last unlinkSync threw, in which case the error is ignored and the file stays.
C4_TempRemovedUnlessUnlinkFails ==
  /\ UnlinkAfterEnd
  /\ (pc = "done" /\ HasInlinePart) =>
       /\ disk.opus.exists
       /\ Positions(UnlinkEvents) # {}
       /\ LastUnlink = "unlinkOk" => ~disk.temp.exists
       /\ LastUnlink = "unlinkErr" => disk.temp.exists

\* a run with two inline parts is over, the temporary file unlinked twice
C4_Witness ==
  /\ pc = "done"
  /\ Cardinality(Positions({"unlinkOk"})) = 2
  /\ ~disk.temp.exists
  /\ disk.opus.exists

\* what C5 says is written for a part
ExpectedBytes(part, written) ==
  LET P == Base64Decode(OrEmpty(part.data))
      D == parseMimeType(OrEmpty(part.mimeType))
      H == createWavHeader(Len(P), D)
  IN  IF getExtension(OrEmpty(part.mimeType)) # Null
      THEN written = P
      ELSE /\ ~H.threw
           /\ Len(H.bytes) = 44
           /\ Len(written) = 44 + Len(P)
           /\ SubSeq(written, 1, 44) = H.bytes
           /\ SubSeq(written, 45, Len(written)) = P

\* C5: for a part with inline data, the bytes written to the intermediate file
\* are the base64-decoded payload P alone when the media type has a known
\* extension, and otherwise the 44-byte header createWavHeader(len(P),
\* parseMimeType(mimeType)) followed by P unchanged, 44 + len(P) bytes in all.
C5_WrittenBytes ==
  /\ \A o \in inflight :
       o.op = "writeFile" => ExpectedBytes(response[o.part], o.bytes)
  /\ (log # <<>> /\ log[Len(log)].ev = "writeOk") =>
       /\ disk.temp.exists
       /\ ExpectedBytes(response[log[Len(log)].part], disk.temp.bytes)
       /\ response[log[Len(log)].part].data = <<"Q", "U", "J", "D">> =>
            SubSeq(disk.temp.bytes, Len(disk.temp.bytes) - 2, Len(disk.temp.bytes))
              = <<65, 66, 67>>

\* a raw PCM part of three bytes was written behind a header
C5_Witness ==
  /\ log # <<>>
  /\ log[Len(log)].ev = "writeOk"
  /\ response[log[Len(log)].part].mimeType = AudioL16Rate24000
  /\ disk.temp.bytes = createWavHeader(3, Descriptor(1, 24000, 16)).bytes \o <<65, 66, 67>>

\* C10: the parts are handled one at a time, in response order, after the one
\* request has completed: the write, transcode and unlink of an inline part are
\* over before the write of a later part begins, at most one write or transcode
\* is in progress at any moment, and one request is made per run: never more
\* than one, and exactly one in every run that gets to the request.
C10_OneAtATime ==
  /\ Len(sent) <= 1
  /\ pc \in {"awaitGenerate", "loop", "awaitSave", "saved", "awaitConvert", "done"} =>
       Len(sent) = 1
  /\ (pc = "failed" /\ error \notin {"MissingContent", "MissingKey"}) => Len(sent) = 1
  /\ Cardinality(inflight) <= 1
  /\ (\E o \in inflight : o.op = "generateContent") =>
       (log = <<>> /\ response = <<>> /\ stdout = <<>>)
  /\ log # <<>> => Len(sent) = 1
  /\ \A j, k \in 1..Len(log) : j < k => log[j].part <= log[k].part
  /\ \A k \in Positions({"writeStart"}) :
       /\ log[k].part \in 1..Len(response)
       /\ response[log[k].part].inlineData
       /\ k > 1 => (log[k - 1].ev \in UnlinkEvents /\ log[k - 1].part < log[k].part)
  /\ \A k \in Positions({"writeOk", "writeErr"}) : log[k - 1] = Event("writeStart", log[k].part)
  /\ \A k \in Positions({"ffmpegStart"}) : log[k - 1] = Event("writeOk", log[k].part)
  /\ \A k \in Positions({"ffmpegEnd", "ffmpegError"}) :
       log[k - 1] = Event("ffmpegStart", log[k].part)

\* two inline parts were written and transcoded, one after the other
C10_Witness ==
  /\ pc = "done"
  /\ Len(sent) = 1
  /\ Cardinality(Positions({"writeStart"})) = 2
  /\ Cardinality(Positions({"ffmpegEnd"})) = 2

====
